---- MODULE Spec2Model ----
(***************************************************************************)
(* Model of the POST /api/generate handler (src/app.py, generate) and of   *)
(* the prompt pipeline (src/itinerary_generator2.py, build_prompt and      *)
(* generate_lesson).                                                       *)
(*                                                                         *)
(* JSON values are tagged records [k |-> kind, v |-> payload].  A string   *)
(* is a sequence of tokens; the token WS is a whitespace character, every  *)
(* other token is a run of non-whitespace characters.  A float is kept in  *)
(* halves (v = 2 * value), so that int()'s truncation is visible.          *)
(***************************************************************************)
EXTENDS Integers, Sequences, FiniteSets, TLC

\* ---------------------------------------------------------------- bounds
MaxStrLen == 2      \* tokens in a subject / level / learning_style string
MaxTopics == 2      \* elements in a topics list
Slack == 1          \* integers tried on each side of a duration limit
MaxVaried == 2      \* fields of a request that differ from the baseline request

\* ------------------------------------------------------ program constants
MinDuration == 15
MaxDuration == 180
DEFAULT_MODEL == "gpt-oss:120b-cloud"

ErrNoData == "Aucune donnée fournie"
ErrSubject == "Le sujet est requis"
ErrLevel == "Le niveau est requis"
ErrStyle == "Le style d'apprentissage est requis"
ErrTopics == "Veuillez sélectionner au moins un thème"
ErrDurationRange == "La durée doit être entre 15 et 180 minutes"
ErrDurationNumber == "La durée doit être un nombre valide"
ErrGeneration == "Erreur lors de la génération: "
ErrApi == "Erreur API: "

\* ------------------------------------------------------------ JSON values
WS == " "
Absent == [k |-> "absent", v |-> 0]
Null == [k |-> "null", v |-> 0]
Inf == [k |-> "inf", v |-> 0]
JInt(n) == [k |-> "int", v |-> n]
JFloat(h) == [k |-> "float", v |-> h]
JStr(s) == [k |-> "str", v |-> s]
JList(l) == [k |-> "list", v |-> l]
JBool(b) == [k |-> "bool", v |-> b]
JDict(d) == [k |-> "dict", v |-> d]
Malformed == [k |-> "malformed", v |-> 0]

SeqsUpTo(S, n) == UNION {[1..m -> S] : m \in 0..n}

\* the four keys of style_instructions, and one string that is not a key
KnownStyles == {"Visuel", "Auditif", "Kinesthésique", "Lecture/Écriture"}
StyleWords == KnownStyles \cup {"Ludique"}

IsWord(c) == c # WS
WordCount(s) == Cardinality({i \in DOMAIN s : IsWord(s[i])})

TextStrings == SeqsUpTo({WS, "Maths"}, MaxStrLen)
StyleStrings == {s \in SeqsUpTo({WS} \cup StyleWords, MaxStrLen) : WordCount(s) <= 1}

\* integer literals a string may hold, with their values
IntLiteral == [lit \in {"60", "200"} |-> IF lit = "60" THEN 60 ELSE 200]
DurationStrings == {<<"60">>, <<WS, "60">>, <<"200">>, <<"abc">>, <<"60.5">>, <<>>}

DurationInts ==
    {0, 60} \cup ((MinDuration - Slack)..(MinDuration + Slack))
            \cup ((MaxDuration - Slack)..(MaxDuration + Slack))
\* floats with a fractional part, in halves: 14.5, 15.5, 179.5, 180.5, ...
DurationHalves ==
    {2 * n + 1 : n \in ((MinDuration - Slack)..(MinDuration + Slack - 1))
                  \cup ((MaxDuration - Slack)..(MaxDuration + Slack - 1))}

SubjectValues == {Absent, Null, JInt(7)} \cup {JStr(s) : s \in TextStrings}
LevelValues == SubjectValues
StyleValues == {Absent, Null, JInt(7)} \cup {JStr(s) : s \in StyleStrings}
TopicElems == {JStr(<<"Algèbre">>), JInt(7)}
TopicsValues ==
    {Absent, Null, JStr(<<"Algèbre">>)} \cup {JList(l) : l \in SeqsUpTo(TopicElems, MaxTopics)}
DurationValues ==
    {Absent, Null, Inf, JBool(TRUE), JList(<<>>)}
      \cup {JInt(n) : n \in DurationInts}
      \cup {JFloat(h) : h \in DurationHalves}
      \cup {JStr(s) : s \in DurationStrings}
ModelValues == {Absent, JStr(<<"llama2:7b">>)}

\* the request of the spec's end-to-end example
Baseline ==
    [subject |-> JStr(<<"Maths">>), level |-> JStr(<<"Maths">>),
     learning_style |-> JStr(<<"Visuel">>), topics |-> JList(<<JStr(<<"Algèbre">>)>>),
     duration |-> JInt(60), model |-> Absent]

Fields == {"subject", "level", "learning_style", "topics", "duration", "model"}

\* the JSON objects in which the fields of F take any value and the others
\* the value of Baseline
DictsVarying(F) ==
    [subject : IF "subject" \in F THEN SubjectValues ELSE {Baseline.subject},
     level : IF "level" \in F THEN LevelValues ELSE {Baseline.level},
     learning_style : IF "learning_style" \in F THEN StyleValues ELSE {Baseline.learning_style},
     topics : IF "topics" \in F THEN TopicsValues ELSE {Baseline.topics},
     duration : IF "duration" \in F THEN DurationValues ELSE {Baseline.duration},
     model : IF "model" \in F THEN ModelValues ELSE {Baseline.model}]

Dicts ==
    UNION {DictsVarying(F) : F \in {G \in SUBSET Fields : Cardinality(G) <= MaxVaried}}

EmptyDict == [f \in Fields |-> Absent]

\* request bodies: bytes that are not JSON, and JSON documents
Bodies ==
    {Malformed, Null, JList(<<>>), JList(<<JInt(7)>>), JInt(0), JStr(<<"Maths">>),
     JDict(EmptyDict)}
      \cup {JDict(d) : d \in Dicts}

\* ------------------------------------------------------- Python primitives
Ok(x) == [raised |-> FALSE, exc |-> "", value |-> x]
Raise(e) == [raised |-> TRUE, exc |-> e, value |-> Null]

RECURSIVE LStrip(_)
LStrip(s) == IF s # <<>> /\ Head(s) = WS THEN LStrip(Tail(s)) ELSE s

RECURSIVE RStrip(_)
RStrip(s) == IF s # <<>> /\ s[Len(s)] = WS THEN RStrip(SubSeq(s, 1, Len(s) - 1)) ELSE s

\* str.strip()
Strip(s) == RStrip(LStrip(s))

\* x.strip() on a JSON value: only a str has the method
StripValue(x) == IF x.k = "str" THEN Ok(JStr(Strip(x.v))) ELSE Raise("AttributeError")

\* truth value of a JSON value (`not data`)
Truthy(x) ==
    CASE x.k = "null" -> FALSE
      [] x.k = "bool" -> x.v
      [] x.k \in {"int", "float"} -> x.v # 0
      [] x.k \in {"str", "list"} -> x.v # <<>>
      [] x.k = "dict" -> \E f \in Fields : x.v[f] # Absent
      [] OTHER -> TRUE

\* data.get(key, default): only a dict has the method
DictGet(data, key, default) ==
    IF data.k # "dict" THEN Raise("AttributeError")
    ELSE Ok(IF data.v[key] = Absent THEN default ELSE data.v[key])

\* request.get_json(): werkzeug raises BadRequest on a body that is not JSON
GetJson(body) == IF body.k = "malformed" THEN Raise("BadRequest") ELSE Ok(body)

\* rounds a half up instead of cutting it off
TruncUp(h) == (h + 1) \div 2

\* int() of a float kept in halves: truncation toward zero
Trunc(h) == IF h >= 0 THEN h \div 2 ELSE -((-h) \div 2)

\* int(duration)
PyInt(x) ==
    CASE x.k = "int" -> Ok(x.v)
      [] x.k = "bool" -> Ok(IF x.v THEN 1 ELSE 0)
      [] x.k = "float" -> Ok(Trunc(x.v))
      [] x.k = "inf" -> Raise("OverflowError")
      [] x.k = "str" ->
           LET t == Strip(x.v) IN
           IF Len(t) = 1 /\ t[1] \in DOMAIN IntLiteral THEN Ok(IntLiteral[t[1]])
           ELSE Raise("ValueError")
      [] OTHER -> Raise("TypeError")

\* ---------------------------------------------------------------- responses
NoEcho == [subject |-> Absent, level |-> Absent, learning_style |-> Absent,
           topics |-> Absent, duration |-> Absent]
NoResponse == [status |-> 0, success |-> "absent", error |-> <<>>, lesson |-> <<>>,
               echo |-> NoEcho]
Resp400(msg) == [status |-> 400, success |-> "absent", error |-> <<msg>>,
                 lesson |-> <<>>, echo |-> NoEcho]
Resp500(exc) == [status |-> 500, success |-> "false", error |-> <<ErrGeneration, exc>>,
                 lesson |-> <<>>, echo |-> NoEcho]
Resp200(lesson, a) ==
    [status |-> 200, success |-> "true", error |-> <<>>, lesson |-> lesson,
     echo |-> [subject |-> a.subject, level |-> a.level,
               learning_style |-> a.learning_style, topics |-> a.topics,
               duration |-> a.duration]]

Respond(r) == [kind |-> "respond", response |-> r, args |-> NoEcho]
Pass(a) == [kind |-> "pass", response |-> NoResponse, args |-> a]

\* ------------------------------------------------ generate(), lines 57-91
NoArgs == [subject |-> Absent, level |-> Absent, learning_style |-> Absent,
           topics |-> Absent, duration |-> Absent, model_name |-> Absent]

\* lines 84-91: the duration check, once the other checks have passed
CheckDuration(subject, level, learning_style, topics, duration, model_name) ==
    LET a == [subject |-> subject, level |-> level, learning_style |-> learning_style,
              topics |-> topics, duration |-> duration, model_name |-> model_name]
    IN  IF duration.k = "null" THEN Pass(a)
        ELSE LET i == PyInt(duration) IN
             IF i.raised
             THEN IF i.exc \in {"TypeError", "ValueError"}
                  THEN Respond(Resp400(ErrDurationNumber))
                  ELSE Respond(Resp500(i.exc))
             ELSE IF i.value < MinDuration \/ i.value > MaxDuration
                  THEN Respond(Resp400(ErrDurationRange))
                  ELSE Pass([a EXCEPT !.duration = JInt(i.value)])

\* lines 71-91: the checks, on the extracted fields
CheckFields(subject, level, learning_style, topics, duration, model_name) ==
    IF subject.v = <<>> THEN Respond(Resp400(ErrSubject))
    ELSE IF level.v = <<>> THEN Respond(Resp400(ErrLevel))
    ELSE IF learning_style.v = <<>> THEN Respond(Resp400(ErrStyle))
    ELSE IF topics.k # "list" \/ Len(topics.v) = 0 THEN Respond(Resp400(ErrTopics))
    ELSE CheckDuration(subject, level, learning_style, topics, duration, model_name)

\* lines 64-69: the fields are read, and the three strings stripped, before
\* any of them is checked
Extract(data) ==
    LET g == DictGet(data, "subject", JStr(<<>>)) IN
    IF g.raised THEN Respond(Resp500(g.exc))
    ELSE
    LET subject == StripValue(g.value) IN
    IF subject.raised THEN Respond(Resp500(subject.exc))
    ELSE
    LET level == StripValue(DictGet(data, "level", JStr(<<>>)).value) IN
    IF level.raised THEN Respond(Resp500(level.exc))
    ELSE
    LET learning_style == StripValue(DictGet(data, "learning_style", JStr(<<>>)).value) IN
    IF learning_style.raised THEN Respond(Resp500(learning_style.exc))
    ELSE CheckFields(subject.value, level.value, learning_style.value,
                     DictGet(data, "topics", JList(<<>>)).value,
                     DictGet(data, "duration", Null).value,
                     DictGet(data, "model", JStr(<<DEFAULT_MODEL>>)).value)

\* lines 57-91 and 114-119: what the handler does before it calls generate_lesson
Validation(body) ==
    LET j == GetJson(body) IN
    IF j.raised THEN Respond(Resp500(j.exc))
    ELSE IF ~Truthy(j.value) THEN Respond(Resp400(ErrNoData))
    ELSE Extract(j.value)

\* -------------------------------------------------------------- build_prompt
style_instructions ==
    [s \in KnownStyles |->
        CASE s = "Visuel" -> "Utilisez des diagrammes, schémas, cartes mentales et exemples visuels. Structurez clairement avec des couleurs et des icônes."
          [] s = "Auditif" -> "Expliquez avec des analogies, répétitions et exemples narratifs. Suggérez des mnémoniques et des rythmes."
          [] s = "Kinesthésique" -> "Proposez des exercices pratiques, des expériences et des manipulations. Incluez des activités interactives."
          [] OTHER -> "Fournissez des textes détaillés, des listes et des résumés écrits. Encouragez la prise de notes."]

\* a lookup whose default is the empty string
StyleInstructionNoDefault(learning_style) ==
    IF Len(learning_style) = 1 /\ learning_style[1] \in KnownStyles
    THEN style_instructions[learning_style[1]]
    ELSE ""

\* style_instructions.get(learning_style, style_instructions["Visuel"])
StyleInstruction(learning_style) ==
    IF Len(learning_style) = 1 /\ learning_style[1] \in KnownStyles
    THEN style_instructions[learning_style[1]]
    ELSE style_instructions["Visuel"]

RECURSIVE Join(_)
\* ", ".join(topics), the topics being strings
Join(l) ==
    IF l = <<>> THEN <<>>
    ELSE IF Len(l) = 1 THEN l[1].v
    ELSE l[1].v \o <<", ">> \o Join(Tail(l))

NoPrompt == [level |-> <<>>, subject |-> <<>>, topics_text |-> <<>>, duration_text |-> <<>>,
             learning_style |-> <<>>, style_instruction |-> ""]

\* build_prompt: the interpolated parts of the template, or the TypeError of
\* str.join on a topic that is no string
BuildPrompt(a) ==
    IF a.topics.v # <<>> /\ \E i \in DOMAIN a.topics.v : a.topics.v[i].k # "str"
    THEN Raise("TypeError")
    ELSE Ok([level |-> a.level.v,
             subject |-> a.subject.v,
             topics_text |-> IF a.topics.v # <<>> THEN Join(a.topics.v) ELSE <<"général">>,
             duration_text |->
                 IF a.duration.k = "int" /\ a.duration.v # 0 /\ a.duration.v > 0
                 THEN <<"Durée de la session: ", ToString(a.duration.v), " minutes.">>
                 ELSE <<>>,
             learning_style |-> a.learning_style.v,
             style_instruction |-> StyleInstruction(a.learning_style.v)])

\* ----------------------------------------------------------- generate_lesson
\* model_name or DEFAULT_MODEL
ModelName(m) == IF Truthy(m) THEN m ELSE JStr(<<DEFAULT_MODEL>>)

\* what client.chat and the read of response['message']['content'] can do:
\* answer, or raise (transport, authentication, malformed answer)
ChatOutcomes == {"ok", "ConnectionError", "ResponseError", "KeyError"}

\* no try/except around the call
LessonResultPropagates(outcome) ==
    IF outcome = "ok" THEN Ok(<<"contenu de la leçon">>) ELSE Raise(outcome)

\* lines 95-110: the text generate_lesson returns
LessonResult(outcome) ==
    IF outcome = "ok" THEN Ok(<<"contenu de la leçon">>) ELSE Ok(<<ErrApi, outcome>>)

\* ------------------------------------------------------------------- state
VARIABLES
    pc,           \* where the handler is: idle, handling, validated, chat, done
    request,      \* the body of the request being handled
    args,         \* the arguments passed to generate_lesson
    sent,         \* the chat request sent to the provider: model and prompt
    lessonCalls,  \* calls of generate_lesson for this request
    chatCalls,    \* calls of client.chat for this request
    outcome,      \* what the provider call did
    response      \* the response of the handler

vars == <<pc, request, args, sent, lessonCalls, chatCalls, outcome, response>>

NoSent == [model |-> Absent, prompt |-> NoPrompt]

Init ==
    /\ pc = "idle"
    /\ request = Null
    /\ args = NoArgs
    /\ sent = NoSent
    /\ lessonCalls = 0
    /\ chatCalls = 0
    /\ outcome = "none"
    /\ response = NoResponse

\* a POST /api/generate arrives
Receive(body) ==
    /\ pc = "idle"
    /\ pc' = "handling"
    /\ request' = body
    /\ UNCHANGED <<args, sent, lessonCalls, chatCalls, outcome, response>>

\* the duration is checked after generate_lesson has been called and has returned
ValidateAfterCall ==
    /\ pc = "handling"
    /\ LET o == Validation(request)
           late == /\ o.kind = "respond"
                   /\ o.response.error \in {<<ErrDurationRange>>, <<ErrDurationNumber>>}
       IN  /\ pc' = IF o.kind = "pass" THEN "validated" ELSE "done"
           /\ args' = o.args
           /\ response' = o.response
           /\ lessonCalls' = IF late THEN 1 ELSE lessonCalls
           /\ chatCalls' = IF late THEN 1 ELSE chatCalls
    /\ UNCHANGED <<request, sent, outcome>>

\* generate(), lines 57-91: parse, extract, check
Validate ==
    /\ pc = "handling"
    /\ LET o == Validation(request)
       IN  /\ pc' = IF o.kind = "pass" THEN "validated" ELSE "done"
           /\ args' = o.args
           /\ response' = o.response
    /\ UNCHANGED <<request, sent, lessonCalls, chatCalls, outcome>>

\* generate() line 95 and generate_lesson lines 92-106: the call, the prompt,
\* the chat request; a raise of build_prompt reaches the handler's except
CallGenerateLesson ==
    /\ pc = "validated"
    /\ lessonCalls' = lessonCalls + 1
    /\ LET p == BuildPrompt(args)
       IN  IF p.raised
           THEN /\ pc' = "done"
                /\ response' = Resp500(p.exc)
                /\ UNCHANGED <<sent, chatCalls>>
           ELSE /\ pc' = "chat"
                /\ sent' = [model |-> ModelName(args.model_name), prompt |-> p.value]
                /\ chatCalls' = chatCalls + 1
                /\ UNCHANGED response
    /\ UNCHANGED <<request, args, outcome>>

\* a failed call is made again
ChatReturnRetry(o) ==
    /\ pc = "chat"
    /\ outcome' = o
    /\ IF o = "ok"
       THEN /\ pc' = "done"
            /\ response' = Resp200(LessonResult(o).value, args)
            /\ UNCHANGED chatCalls
       ELSE /\ pc' = "chat"
            /\ chatCalls' = chatCalls + 1
            /\ UNCHANGED response
    /\ UNCHANGED <<request, args, sent, lessonCalls>>

\* generate_lesson lines 102-110 and generate() lines 104-119: the provider
\* call ends, generate_lesson returns, the handler responds
ChatReturn(o) ==
    /\ pc = "chat"
    /\ outcome' = o
    /\ pc' = "done"
    /\ LET r == LessonResult(o)
       IN  response' = IF r.raised THEN Resp500(r.exc) ELSE Resp200(r.value, args)
    /\ UNCHANGED <<request, args, sent, lessonCalls, chatCalls>>

\* the response is sent; the next request is independent of this one
Finish ==
    /\ pc = "done"
    /\ pc' = "idle"
    /\ request' = Null
    /\ args' = NoArgs
    /\ sent' = NoSent
    /\ lessonCalls' = 0
    /\ chatCalls' = 0
    /\ outcome' = "none"
    /\ response' = NoResponse

Next ==
    \/ pc = "idle" /\ \E body \in Bodies : Receive(body)
    \/ Validate
    \/ CallGenerateLesson
    \/ \E o \in ChatOutcomes : ChatReturn(o)
    \/ Finish

Spec == Init /\ [][Next]_vars

\* ------------------------------------------------------ words of the claims
\* x is a string with a character that is not whitespace
HasText(x) == x.k = "str" /\ \E i \in DOMAIN x.v : x.v[i] # WS

\* x is a string of whitespace only, the empty string included
Blank(x) == x.k = "str" /\ \A i \in DOMAIN x.v : x.v[i] = WS

\* a required string is missing: absent, null, or empty after trimming
Missing(x) == x.k \in {"absent", "null"} \/ Blank(x)

\* topics is empty or not a sequence (an absent topics reads as the empty list)
TopicsBad(x) == x.k # "list" \/ Len(x.v) = 0

AllStrings(x) == x.k = "list" /\ \A i \in DOMAIN x.v : x.v[i].k = "str"

DurationGiven(d) == d.k \notin {"absent", "null"}

\* the duration check of lines 85-91 lets d through
DurationAccepted(d) ==
    \/ ~DurationGiven(d)
    \/ /\ ~PyInt(d).raised
       /\ MinDuration <= PyInt(d).value
       /\ PyInt(d).value <= MaxDuration

IsObject == request.k = "dict" /\ pc # "idle"

FirstFourPass ==
    /\ IsObject
    /\ HasText(request.v.subject)
    /\ HasText(request.v.level)
    /\ HasText(request.v.learning_style)
    /\ ~TopicsBad(request.v.topics)

ChecksPassed == FirstFourPass /\ DurationAccepted(request.v.duration)

ProviderFailed == outcome \in ChatOutcomes \ {"ok"}

NoCall == lessonCalls = 0 /\ chatCalls = 0

\* --------------------------------------------------------------------- C1
\* C1: a response of status 400 is never preceded by a call of generate_lesson
\* or of client.chat for that request, and either call is made only for a
\* request whose subject, level, learning_style, topics and duration have
\* passed their checks.
C1_NoCallBeforeValidation ==
    /\ response.status = 400 => NoCall
    /\ ~NoCall => ChecksPassed

\* a request rejected by the last check, the duration's, has been answered
C1_Witness ==
    /\ pc = "done"
    /\ response = Resp400(ErrDurationRange)
    /\ FirstFourPass
    /\ NoCall

\* --------------------------------------------------------------------- C2
\* C2: a request whose body is not parseable JSON, or parses to null, is
\* answered with status 400 and the "no data" error, with no provider call.
C2_UnparseableIs400 ==
    pc = "done" /\ request.k \in {"malformed", "null"}
        => response = Resp400(ErrNoData) /\ NoCall

\* --------------------------------------------------------------------- C3
\* C3: a request with a JSON object in which subject, level or learning_style
\* is missing (absent, null or empty after trimming), or topics is empty or
\* not a sequence, is answered with status 400 whatever the other fields are.
C3_MissingIs400 ==
    /\ pc = "done"
    /\ IsObject
    /\ \/ Missing(request.v.subject)
       \/ Missing(request.v.level)
       \/ Missing(request.v.learning_style)
       \/ TopicsBad(request.v.topics)
    => response.status = 400

\* --------------------------------------------------------------------- C4
\* the number a duration stands for, in halves; -1 when it is not a number
DurationHalvesOf(d) ==
    CASE d.k = "int" -> 2 * d.v
      [] d.k = "float" -> d.v
      [] d.k = "str" /\ ~PyInt(d).raised -> 2 * PyInt(d).value
      [] OTHER -> -1

NonNumeric(d) == d.k \in {"str", "list", "bool", "dict"} /\ DurationHalvesOf(d) = -1

OutOfRange(d) ==
    \/ d.k = "inf"
    \/ /\ ~NonNumeric(d)
       /\ DurationHalvesOf(d) < 2 * MinDuration \/ DurationHalvesOf(d) > 2 * MaxDuration

\* C4: for a request that passes the first four checks, a duration that is
\* given and is non-numeric or lies outside [15,180] yields status 400; a
\* duration inside [15,180], or none, is not rejected and generate_lesson is
\* called.
C4_DurationRange ==
    pc = "done" /\ FirstFourPass =>
        IF DurationGiven(request.v.duration)
            /\ (NonNumeric(request.v.duration) \/ OutOfRange(request.v.duration))
        THEN response.status = 400
        ELSE response.status # 400 /\ lessonCalls = 1

\* --------------------------------------------------------------------- C5
\* C5: for a request that passed every check, a failure during generation
\* (of the provider call or of the pipeline) is answered with status 500 and
\* success=false, never with status 200.
C5_FailureIs500 ==
    /\ pc = "done"
    /\ ChecksPassed
    /\ ProviderFailed \/ (lessonCalls = 1 /\ chatCalls = 0)
    => response.status = 500 /\ response.success = "false"

\* --------------------------------------------------------------------- C6
\* the echo of the duration is the request's duration itself
SameDuration(e, d) == IF DurationGiven(d) THEN e = d ELSE e = Null

\* C6 (as stated): in a response of status 200 the echoed subject, level,
\* learning_style, topics and duration equal the fields of the request body.
C6_EchoIsInput ==
    response.status = 200 =>
        /\ response.echo.subject = request.v.subject
        /\ response.echo.level = request.v.level
        /\ response.echo.learning_style = request.v.learning_style
        /\ response.echo.topics = request.v.topics
        /\ SameDuration(response.echo.duration, request.v.duration)

\* e is x without its leading and trailing whitespace
IsTrimOf(e, x) ==
    /\ e.k = "str" /\ x.k = "str"
    /\ e.v = <<>> \/ (e.v[1] # WS /\ e.v[Len(e.v)] # WS)
    /\ \E i \in 0..Len(x.v) :
          /\ i + Len(e.v) <= Len(x.v)
          /\ SubSeq(x.v, i + 1, i + Len(e.v)) = e.v
          /\ \A n \in 1..Len(x.v) : (n <= i \/ n > i + Len(e.v)) => x.v[n] = WS

\* e is the integer d converts to: d itself, the integer part of a number
\* with a fraction, the integer a string spells; null when no duration is given
IsIntOf(e, d) ==
    CASE ~DurationGiven(d) -> e = Null
      [] d.k = "int" -> e = d
      [] d.k = "float" -> e.k = "int" /\ 2 * e.v <= d.v /\ d.v < 2 * e.v + 2
      [] d.k = "str" ->
           /\ e.k = "int"
           /\ \E i \in DOMAIN d.v :
                 /\ d.v[i] \in DOMAIN IntLiteral
                 /\ IntLiteral[d.v[i]] = e.v
                 /\ \A n \in DOMAIN d.v : n # i => d.v[n] = WS
      [] OTHER -> FALSE

\* C6 (amended): in a response of status 200 the echoed subject, level and
\* learning_style are the request's strings without their leading and
\* trailing whitespace, the echoed topics are the request's topics, and the
\* echoed duration is the request's duration converted to an integer (null
\* when the request gives none).
C6_EchoIsNormalisedInput ==
    response.status = 200 =>
        /\ IsTrimOf(response.echo.subject, request.v.subject)
        /\ IsTrimOf(response.echo.level, request.v.level)
        /\ IsTrimOf(response.echo.learning_style, request.v.learning_style)
        /\ response.echo.topics = request.v.topics
        /\ IsIntOf(response.echo.duration, request.v.duration)

\* a 200 whose echo differs from the input in a string and in the duration
C6_Witness ==
    /\ response.status = 200
    /\ request.v.subject.v # response.echo.subject.v
    /\ request.v.duration.k = "float"
    /\ response.echo.duration.k = "int"

\* --------------------------------------------------------------------- C7
\* C7: at most one call of generate_lesson and one of client.chat is made for
\* a request; a request that passed every check has had exactly one call of
\* generate_lesson when it is answered, and exactly one of client.chat when
\* its topics are strings; once the provider call has failed the request is
\* answered with no second call.
C7_SingleAttempt ==
    /\ lessonCalls <= 1 /\ chatCalls <= 1
    /\ pc = "done" /\ ChecksPassed => lessonCalls = 1
    /\ pc = "done" /\ ChecksPassed /\ AllStrings(request.v.topics) => chatCalls = 1
    /\ ProviderFailed => pc = "done" /\ chatCalls = 1

\* a request whose single provider call failed has been answered
C7_Witness ==
    /\ pc = "done"
    /\ outcome = "ConnectionError"
    /\ chatCalls = 1

\* --------------------------------------------------------------------- C8
\* C8: when the provider call fails, generate_lesson returns the text of the
\* error and the handler answers 200 with success=true and that text as the
\* lesson: the status is the one of a successful generation.
C8_FailureIsContent ==
    /\ ProviderFailed =>
          /\ response.status = 200
          /\ response.success = "true"
          /\ response.lesson = <<ErrApi, outcome>>
    /\ outcome = "ok" => response.status = 200 /\ response.success = "true"

\* the answer to a request whose provider call failed on authentication
C8_Witness ==
    /\ pc = "done"
    /\ outcome = "ResponseError"
    /\ response.status = 200
    /\ response.lesson = <<ErrApi, "ResponseError">>

\* --------------------------------------------------------------------- C9
\* a required string fails its check in a way the check itself handles
FailsCheck(x) == x.k = "absent" \/ Blank(x)

\* C9: the checks run in the order subject, level, learning_style, topics,
\* and the response is the 400 of the first one that fails, whatever the
\* fields of the later checks hold.  (Stated on the JSON objects that pass
\* the body check and whose first failing field is absent or blank.)
C9_FirstFailingCheckDecides ==
    pc = "done" /\ IsObject /\ Truthy(request) =>
        /\ FailsCheck(request.v.subject) => response = Resp400(ErrSubject)
        /\ HasText(request.v.subject) /\ FailsCheck(request.v.level)
              => response = Resp400(ErrLevel)
        /\ HasText(request.v.subject) /\ HasText(request.v.level)
              /\ FailsCheck(request.v.learning_style)
              => response = Resp400(ErrStyle)
        /\ HasText(request.v.subject) /\ HasText(request.v.level)
              /\ HasText(request.v.learning_style) /\ TopicsBad(request.v.topics)
              => response = Resp400(ErrTopics)

\* -------------------------------------------------------------------- C10
\* the trimmed learning_style is not empty and is no key of style_instructions
UnknownStyle(x) ==
    /\ HasText(x)
    /\ ~(Len(Strip(x.v)) = 1 /\ Strip(x.v)[1] \in KnownStyles)

====
